---- MODULE Spec2Model ----
(***************************************************************************)
(* A model of edb/server/buildmeta.py: the build-metadata accessor, the    *)
(* directory hasher, the on-disk data cache (read_data_cache and           *)
(* write_data_cache), the Version tuple with its string form, the parser   *)
(* parse_version and the memoized get_version_dict / get_version_json.     *)
(*                                                                         *)
(* Byte strings are sequences of numbers 0..255; text strings are          *)
(* sequences of one-character strings.                                     *)
(***************************************************************************)
EXTENDS Integers, Sequences, FiniteSets, TLC

(***************************************************************************)
(* Bounds                                                                  *)
(***************************************************************************)
\* longest cache key a caller passes
MaxKeyLen == 1
\* longest bytes object a caller stores
MaxObjLen == 1
\* residual temporary files the cache directory may come to hold
MaxOrphans == 1

\* the byte values keys and stored bytes objects are drawn from
Bytes == {1, 2}
Paths == {"p"}
Writers == {"w1", "w2"}

(***************************************************************************)
(* Generic helpers                                                         *)
(***************************************************************************)
SeqsUpTo(S, n) == UNION {[1..k -> S] : k \in 0..n}

Prefix(s, n) == SubSeq(s, 1, IF n < Len(s) THEN n ELSE Len(s))

Suffix(s, n) == SubSeq(s, n + 1, Len(s))

\* the strict prefixes of s: what a write that fails part-way may leave
StrictPrefixes(s) == {SubSeq(s, 1, k) : k \in 0..(Len(s) - 1)}

(***************************************************************************)
(* Python values that are stored in the cache                              *)
(***************************************************************************)
NoneObj == [t |-> "none", v |-> <<>>]
BytesObj(b) == [t |-> "bytes", v |-> b]
IntObj(n) == [t |-> "int", v |-> <<n>>]

Keys == SeqsUpTo(Bytes, MaxKeyLen)
Objects == {NoneObj} \cup {BytesObj(b) : b \in SeqsUpTo(Bytes, MaxObjLen)}

(***************************************************************************)
(* pickle, protocol 5 (pickle.HIGHEST_PROTOCOL), for the values above      *)
(***************************************************************************)
PROTO == 128
PROTOCOL == 5
FRAME == 149
NONE == 78
BININT1 == 75
SHORT_BINBYTES == 67
MEMOIZE == 148
STOP == 46
FRAME_SIZE_MIN == 4

\* the opcodes of one value, STOP included
PickleBody(obj) ==
    CASE obj.t = "none" -> <<NONE, STOP>>
      [] obj.t = "int" -> <<BININT1, obj.v[1], STOP>>
      [] obj.t = "bytes" ->
            <<SHORT_BINBYTES, Len(obj.v)>> \o obj.v \o <<MEMOIZE, STOP>>

\* an 8-byte little-endian length (lengths here are below 256)
Le8(n) == <<n, 0, 0, 0, 0, 0, 0, 0>>

\* pickle.dumps(obj, protocol=5): a body of at least FRAME_SIZE_MIN bytes
\* is wrapped in a frame
PickleDumps(obj) ==
    LET body == PickleBody(obj)
    IN  <<PROTO, PROTOCOL>> \o
        (IF Len(body) >= FRAME_SIZE_MIN
            THEN <<FRAME>> \o Le8(Len(body)) \o body
            ELSE body)

PickleError == [ok |-> FALSE, val |-> NoneObj]

\* one value read from the opcodes d; data after STOP is ignored
LoadsBody(d) ==
    IF Len(d) < 2 THEN PickleError
    ELSE IF d[1] = NONE
        THEN IF d[2] = STOP THEN [ok |-> TRUE, val |-> NoneObj]
                            ELSE PickleError
    ELSE IF d[1] = BININT1
        THEN IF Len(d) >= 3 /\ d[3] = STOP
                THEN [ok |-> TRUE, val |-> IntObj(d[2])]
                ELSE PickleError
    ELSE IF d[1] = SHORT_BINBYTES
        THEN LET n == d[2]
             IN  IF Len(d) >= n + 4 /\ d[n + 3] = MEMOIZE /\ d[n + 4] = STOP
                    THEN [ok |-> TRUE, val |-> BytesObj(SubSeq(d, 3, n + 2))]
                    ELSE PickleError
    ELSE PickleError

\* pickle.loads(data): ok is FALSE where pickle.loads raises
PickleLoads(data) ==
    IF Len(data) < 2 \/ data[1] # PROTO \/ data[2] # PROTOCOL
        THEN PickleError
    ELSE LET rest == Suffix(data, 2)
         IN  IF Len(rest) >= 1 /\ rest[1] = FRAME
                THEN IF Len(rest) >= 9 /\ Len(rest) >= 9 + rest[2]
                        THEN LoadsBody(SubSeq(rest, 10, 9 + rest[2]))
                        ELSE PickleError
                ELSE LoadsBody(rest)

(***************************************************************************)
(* State                                                                   *)
(***************************************************************************)
VARIABLES
    \* the cache directory: dest[p] is the file at full_path p, destArgs[p]
    \* (history) the call whose rename put it there, orphans the number of
    \* temporary files that finished calls left behind
    dest, destArgs, orphans,
    \* write_data_cache, per caller: position, arguments, the state of the
    \* temp file f and its content, the exception raised first and the one
    \* that reaches the caller
    wpc, wargs, wf, wbuf, wcause, wraised,
    \* read_data_cache: position, arguments, the file it opened and (history)
    \* the call that wrote it, src_hash, the value returned
    rpc, rargs, rfd, rseen, rhash, rresult,
    \* get_build_metadata_value: os.environ, _buildmeta, the call's outcome
    environ, buildmeta, mprop, mresult,
    \* Version.__str__ and parse_version: input and outcome
    ver, verstr, foreign, parsed,
    \* hash_dirs: a directory tree before and after changes, and the digest
    \* of each
    tree, tree2, digest, digest2,
    \* the memo slots _version_dict and _version_json, the version source,
    \* the callers (position, function called, locals, value returned) and
    \* the counts of calls and computations
    versionDict, versionJson, source, cpc, ctop, cver, cdict, cret,
    ncalls, nVersion, nViaDict, nDict, nJson

cacheVars == <<dest, destArgs, orphans, wpc, wargs, wf, wbuf, wcause, wraised,
               rpc, rargs, rfd, rseen, rhash, rresult>>
metaVars == <<environ, buildmeta, mprop, mresult>>
versionVars == <<ver, verstr, foreign, parsed>>
hashVars == <<tree, tree2, digest, digest2>>
memoVars == <<versionDict, versionJson, source, cpc, ctop, cver, cdict, cret,
              ncalls, nVersion, nViaDict, nDict, nJson>>
vars == <<cacheVars, metaVars, versionVars, hashVars, memoVars>>

\* what the actions of one part of the module leave alone
notCache == <<metaVars, versionVars, hashVars, memoVars>>
notMeta == <<cacheVars, versionVars, hashVars, memoVars>>
notStr == <<foreign, parsed, cacheVars, metaVars, hashVars, memoVars>>
notParse == <<ver, verstr, cacheVars, metaVars, hashVars, memoVars>>
notHash == <<cacheVars, metaVars, versionVars, memoVars>>
notMemo == <<cacheVars, metaVars, versionVars, hashVars>>

(***************************************************************************)
(* The data cache: write_data_cache and read_data_cache.                   *)
(* A temporary file is known by the call that holds it; once that call is  *)
(* over nothing in the module opens the file again, and only the count of  *)
(* such files is kept.                                                     *)
(***************************************************************************)
NoFile == [exists |-> FALSE, content |-> <<>>]
File(bytes) == [exists |-> TRUE, content |-> bytes]
NoArgs == [key |-> <<>>, obj |-> NoneObj, pickled |-> FALSE, path |-> "-"]
NoError == "none"

\* the bytes write_data_cache puts after the key
Payload(obj, pickled) == IF pickled THEN PickleDumps(obj) ELSE obj.v

\* f.write(obj) of a file opened 'wb' takes bytes only
Writable(obj, pickled) == pickled \/ obj.t = "bytes"

InitCache ==
    /\ dest = [p \in Paths |-> NoFile]
    /\ destArgs = [p \in Paths |-> NoArgs]
    /\ orphans = 0
    /\ wpc = [w \in Writers |-> "idle"]
    /\ wargs = [w \in Writers |-> NoArgs]
    /\ wf = [w \in Writers |-> "unbound"]
    /\ wbuf = [w \in Writers |-> <<>>]
    /\ wcause = [w \in Writers |-> NoError]
    /\ wraised = [w \in Writers |-> NoError]
    /\ rpc = "idle"
    /\ rargs = NoArgs
    /\ rfd = NoFile
    /\ rseen = NoArgs
    /\ rhash = <<>>
    /\ rresult = NoneObj

readerVars == <<rpc, rargs, rfd, rseen, rhash, rresult>>
dirVars == <<dest, destArgs, orphans>>

\* a caller enters write_data_cache(obj, cache_key, path, pickled=...)
WriteCall(w, keys, objs) ==
    /\ wpc[w] = "idle"
    /\ orphans < MaxOrphans
    /\ \E k \in keys, o \in objs, pk \in BOOLEAN, p \in Paths :
          wargs' = [wargs EXCEPT ![w] =
                        [key |-> k, obj |-> o, pickled |-> pk, path |-> p]]
    /\ wpc' = [wpc EXCEPT ![w] = "create"]
    /\ UNCHANGED <<dirVars, wf, wbuf, wcause, wraised, readerVars>>
    /\ UNCHANGED notCache

\* tempfile.NamedTemporaryFile(mode='wb', dir=full_path.parent, delete=False)
CreateTemp(w) ==
    /\ wpc[w] = "create"
    /\ wf' = [wf EXCEPT ![w] = "temp"]
    /\ wbuf' = [wbuf EXCEPT ![w] = <<>>]
    /\ wpc' = [wpc EXCEPT ![w] = "wkey"]
    /\ UNCHANGED <<dirVars, wargs, wcause, wraised, readerVars>>
    /\ UNCHANGED notCache

\* NamedTemporaryFile raises: f is never bound, so os.unlink(f.name) in the
\* handler raises UnboundLocalError, which is no OSError; the bare raise in
\* the finally clause re-raises that one
CreateTempFail(w) ==
    /\ wpc[w] = "create"
    /\ wcause' = [wcause EXCEPT ![w] = "OSError"]
    /\ wraised' = [wraised EXCEPT ![w] = "UnboundLocalError"]
    /\ wpc' = [wpc EXCEPT ![w] = "failed"]
    /\ UNCHANGED <<dirVars, wargs, wf, wbuf, readerVars>>
    /\ UNCHANGED notCache

\* f.write(cache_key)
WriteKey(w) ==
    /\ wpc[w] = "wkey"
    /\ wbuf' = [wbuf EXCEPT ![w] = wbuf[w] \o wargs[w].key]
    /\ wpc' = [wpc EXCEPT ![w] = "wpayload"]
    /\ UNCHANGED <<dirVars, wargs, wf, wcause, wraised, readerVars>>
    /\ UNCHANGED notCache

\* f.write(cache_key) raises after part of the key reached the file
WriteKeyFail(w) ==
    /\ wpc[w] = "wkey"
    /\ \E part \in StrictPrefixes(wargs[w].key) :
          wbuf' = [wbuf EXCEPT ![w] = wbuf[w] \o part]
    /\ wcause' = [wcause EXCEPT ![w] = "OSError"]
    /\ wpc' = [wpc EXCEPT ![w] = "except"]
    /\ UNCHANGED <<dirVars, wargs, wf, wraised, readerVars>>
    /\ UNCHANGED notCache

\* pickle.dump(obj, file=f, protocol=pickle.HIGHEST_PROTOCOL) or f.write(obj)
WritePayload(w) ==
    /\ wpc[w] = "wpayload"
    /\ Writable(wargs[w].obj, wargs[w].pickled)
    /\ wbuf' = [wbuf EXCEPT ![w] =
                    wbuf[w] \o Payload(wargs[w].obj, wargs[w].pickled)]
    /\ wpc' = [wpc EXCEPT ![w] = "close"]
    /\ UNCHANGED <<dirVars, wargs, wf, wcause, wraised, readerVars>>
    /\ UNCHANGED notCache

\* the payload write raises: a TypeError before anything is written when obj
\* is not bytes, an OSError after part of the payload otherwise
WritePayloadFail(w) ==
    /\ wpc[w] = "wpayload"
    /\ IF Writable(wargs[w].obj, wargs[w].pickled)
          THEN /\ \E part \in StrictPrefixes(
                        Payload(wargs[w].obj, wargs[w].pickled)) :
                     wbuf' = [wbuf EXCEPT ![w] = wbuf[w] \o part]
               /\ wcause' = [wcause EXCEPT ![w] = "OSError"]
          ELSE /\ wbuf' = wbuf
               /\ wcause' = [wcause EXCEPT ![w] = "TypeError"]
    /\ wpc' = [wpc EXCEPT ![w] = "except"]
    /\ UNCHANGED <<dirVars, wargs, wf, wraised, readerVars>>
    /\ UNCHANGED notCache

\* the with block ends normally: the file is flushed and closed
CloseTemp(w) ==
    /\ wpc[w] = "close"
    /\ wpc' = [wpc EXCEPT ![w] = "rename"]
    /\ UNCHANGED <<dirVars, wargs, wf, wbuf, wcause, wraised, readerVars>>
    /\ UNCHANGED notCache

\* the flush at the end of the with block raises
CloseTempFail(w) ==
    /\ wpc[w] = "close"
    /\ wcause' = [wcause EXCEPT ![w] = "OSError"]
    /\ wpc' = [wpc EXCEPT ![w] = "except"]
    /\ UNCHANGED <<dirVars, wargs, wf, wbuf, wraised, readerVars>>
    /\ UNCHANGED notCache

\* Unlink as it would be if the handler moved the temp file into place
\* instead of removing it
UnlinkRenames(w) ==
    /\ wpc[w] = "except"
    /\ dest' = [dest EXCEPT ![wargs[w].path] = File(wbuf[w])]
    /\ destArgs' = [destArgs EXCEPT ![wargs[w].path] = wargs[w]]
    /\ wf' = [wf EXCEPT ![w] = "renamed"]
    /\ wraised' = [wraised EXCEPT ![w] = wcause[w]]
    /\ wpc' = [wpc EXCEPT ![w] = "failed"]
    /\ UNCHANGED <<orphans, wargs, wbuf, wcause, readerVars>>
    /\ UNCHANGED notCache

\* except Exception: os.unlink(f.name), then the bare raise
Unlink(w) ==
    /\ wpc[w] = "except"
    /\ wf' = [wf EXCEPT ![w] = "unlinked"]
    /\ wraised' = [wraised EXCEPT ![w] = wcause[w]]
    /\ wpc' = [wpc EXCEPT ![w] = "failed"]
    /\ UNCHANGED <<dirVars, wargs, wbuf, wcause, readerVars>>
    /\ UNCHANGED notCache

\* os.unlink raises OSError, which is passed over; then the bare raise
UnlinkFail(w) ==
    /\ wpc[w] = "except"
    /\ wraised' = [wraised EXCEPT ![w] = wcause[w]]
    /\ wpc' = [wpc EXCEPT ![w] = "failed"]
    /\ UNCHANGED <<dirVars, wargs, wf, wbuf, wcause, readerVars>>
    /\ UNCHANGED notCache

\* else: os.rename(f.name, full_path)
Rename(w) ==
    /\ wpc[w] = "rename"
    /\ dest' = [dest EXCEPT ![wargs[w].path] = File(wbuf[w])]
    /\ destArgs' = [destArgs EXCEPT ![wargs[w].path] = wargs[w]]
    /\ wf' = [wf EXCEPT ![w] = "renamed"]
    /\ wpc' = [wpc EXCEPT ![w] = "done"]
    /\ UNCHANGED <<orphans, wargs, wbuf, wcause, wraised, readerVars>>
    /\ UNCHANGED notCache

\* os.rename raises: the else clause has no handler
RenameFail(w) ==
    /\ wpc[w] = "rename"
    /\ wcause' = [wcause EXCEPT ![w] = "OSError"]
    /\ wraised' = [wraised EXCEPT ![w] = "OSError"]
    /\ wpc' = [wpc EXCEPT ![w] = "failed"]
    /\ UNCHANGED <<dirVars, wargs, wf, wbuf, readerVars>>
    /\ UNCHANGED notCache

\* the caller is interrupted (KeyboardInterrupt, a kill): except Exception
\* does not catch it and no cleanup runs
Interrupt(w) ==
    /\ wpc[w] \in {"create", "wkey", "wpayload", "close", "rename"}
    /\ wpc' = [wpc EXCEPT ![w] = "killed"]
    /\ UNCHANGED <<dirVars, wargs, wf, wbuf, wcause, wraised, readerVars>>
    /\ UNCHANGED notCache

\* the call is over; a temp file it left stays in the directory
WriteReturn(w) ==
    /\ wpc[w] \in {"done", "failed", "killed"}
    /\ orphans' = IF wf[w] = "temp" THEN orphans + 1 ELSE orphans
    /\ wpc' = [wpc EXCEPT ![w] = "idle"]
    /\ wargs' = [wargs EXCEPT ![w] = NoArgs]
    /\ wf' = [wf EXCEPT ![w] = "unbound"]
    /\ wbuf' = [wbuf EXCEPT ![w] = <<>>]
    /\ wcause' = [wcause EXCEPT ![w] = NoError]
    /\ wraised' = [wraised EXCEPT ![w] = NoError]
    /\ UNCHANGED <<dest, destArgs, readerVars>>
    /\ UNCHANGED notCache

writerVars == <<wpc, wargs, wf, wbuf, wcause, wraised>>

\* a caller enters read_data_cache(cache_key, path, pickled=...)
ReadCall(keys) ==
    /\ rpc = "idle"
    /\ \E k \in keys, pk \in BOOLEAN, p \in Paths :
          rargs' = [key |-> k, obj |-> NoneObj, pickled |-> pk, path |-> p]
    /\ rpc' = "open"
    /\ UNCHANGED <<dirVars, writerVars, rfd, rseen, rhash, rresult>>
    /\ UNCHANGED notCache

\* if full_path.exists(): open(full_path, 'rb'); otherwise None is returned.
\* The open file is the one linked at that moment, whatever is renamed over
\* the name later.
ReadOpen ==
    /\ rpc = "open"
    /\ rfd' = dest[rargs.path]
    /\ rseen' = destArgs[rargs.path]
    /\ rpc' = IF dest[rargs.path].exists THEN "readkey" ELSE "done"
    /\ rresult' = NoneObj
    /\ UNCHANGED <<dirVars, writerVars, rargs, rhash>>
    /\ UNCHANGED notCache

\* src_hash = f.read(len(cache_key))
ReadSrcHash(content, cache_key) == Prefix(content, Len(cache_key))

\* ReadValue as it would be if the payload were read from the start of the
\* file again
ReadValueWhole(content, cache_key, src_hash, pickled) ==
    IF src_hash = cache_key
        THEN IF pickled
                THEN (IF PickleLoads(content).ok
                         THEN PickleLoads(content).val ELSE NoneObj)
                ELSE BytesObj(content)
        ELSE NoneObj

\* what read_data_cache returns once src_hash has been read
ReadValue(content, cache_key, src_hash, pickled) ==
    IF src_hash = cache_key
        THEN LET data == Suffix(content, Len(src_hash))
             IN  IF pickled
                    THEN (IF PickleLoads(data).ok
                             THEN PickleLoads(data).val ELSE NoneObj)
                    ELSE BytesObj(data)
        ELSE NoneObj

ReadKey ==
    /\ rpc = "readkey"
    /\ rhash' = ReadSrcHash(rfd.content, rargs.key)
    /\ rpc' = "readrest"
    /\ UNCHANGED <<dirVars, writerVars, rargs, rfd, rseen, rresult>>
    /\ UNCHANGED notCache

\* the comparison, f.read(), pickle.loads; the file is closed
ReadRest ==
    /\ rpc = "readrest"
    /\ rresult' = ReadValue(rfd.content, rargs.key, rhash, rargs.pickled)
    /\ rpc' = "done"
    /\ UNCHANGED <<dirVars, writerVars, rargs, rfd, rseen, rhash>>
    /\ UNCHANGED notCache

ReadReturn ==
    /\ rpc = "done"
    /\ rpc' = "idle"
    /\ rargs' = NoArgs
    /\ rfd' = NoFile
    /\ rseen' = NoArgs
    /\ rhash' = <<>>
    /\ rresult' = NoneObj
    /\ UNCHANGED <<dirVars, writerVars>>
    /\ UNCHANGED notCache

\* the steps of a call of write_data_cache once entered
WriteStep(w) ==
    \/ CreateTemp(w)
    \/ CreateTempFail(w)
    \/ WriteKey(w)
    \/ WriteKeyFail(w)
    \/ WritePayload(w)
    \/ WritePayloadFail(w)
    \/ CloseTemp(w)
    \/ CloseTempFail(w)
    \/ Unlink(w)
    \/ UnlinkFail(w)
    \/ Rename(w)
    \/ RenameFail(w)
    \/ Interrupt(w)
    \/ WriteReturn(w)

ReadStep ==
    \/ ReadOpen
    \/ ReadKey
    \/ ReadRest
    \/ ReadReturn

\* one caller, one call at a time
NextCache ==
    \/ (rpc = "idle" /\ WriteCall("w1", Keys, Objects))
    \/ WriteStep("w1")
    \/ (wpc["w1"] = "idle" /\ ReadCall(Keys))
    \/ ReadStep

\* the keys and objects of the concurrent callers
ConcKeys == {<<1>>}
ConcObjects == {NoneObj, BytesObj(<<2>>)}

\* several writers and a reader, interleaved step by step
NextCacheConc ==
    \/ \E w \in Writers :
          \/ WriteCall(w, ConcKeys, ConcObjects)
          \/ WriteStep(w)
    \/ ReadCall(ConcKeys)
    \/ ReadStep

(***************************************************************************)
(* get_build_metadata_value                                                *)
(***************************************************************************)
Props == {"VERSION", "RUNSTATE_DIR"}
MetaValues == {"", "x", "y"}

\* f'_EDGEDB_BUILDMETA_{prop}'
EnvName(prop) == "_EDGEDB_BUILDMETA_" \o prop

\* the names the environment may hold: the overrides, and variables named
\* as the properties themselves
EnvNames == {EnvName(p) : p \in Props} \cup Props

\* os.environ.get(name): None when the variable is not set
NoValue == [set |-> FALSE, val |-> ""]
Value(v) == [set |-> TRUE, val |-> v]
EnvironGet(env, name) ==
    IF name \in DOMAIN env THEN Value(env[name]) ELSE NoValue

\* the _buildmeta module: absent (ImportError), or a record of attributes
NoModule == [present |-> FALSE, attrs |-> <<>>]
Module(attrs) == [present |-> TRUE, attrs |-> attrs]

Return(v) == [kind |-> "return", val |-> v]
MetadataError == [kind |-> "MetadataError", val |-> ""]
NoResult == [kind |-> "none", val |-> ""]

\* if env_val: a value that is not set, or is the empty string, is falsy
Truthy(v) == v.set /\ v.val # ""

\* get_build_metadata_value as it would be if the embedded record came first
get_build_metadata_value_record_first(env, meta, prop) ==
    LET env_val == EnvironGet(env, EnvName(prop))
    IN  IF meta.present /\ prop \in DOMAIN meta.attrs
            THEN Return(meta.attrs[prop])
        ELSE IF Truthy(env_val) THEN Return(env_val.val)
        ELSE MetadataError

get_build_metadata_value(env, meta, prop) ==
    LET env_val == EnvironGet(env, EnvName(prop))
    IN  IF Truthy(env_val) THEN Return(env_val.val)
        ELSE IF meta.present /\ prop \in DOMAIN meta.attrs
            THEN Return(meta.attrs[prop])
            ELSE MetadataError

InitMeta ==
    /\ environ \in UNION {[D -> MetaValues] : D \in SUBSET EnvNames}
    /\ buildmeta \in {NoModule} \cup
          {Module(a) : a \in UNION {[D -> MetaValues] : D \in SUBSET Props}}
    /\ mprop = ""
    /\ mresult = NoResult

\* a call get_build_metadata_value(prop), prop not empty
GetBuildMetadataValue ==
    /\ \E prop \in Props :
          /\ mprop' = prop
          /\ mresult' = get_build_metadata_value(environ, buildmeta, prop)
    /\ UNCHANGED <<environ, buildmeta>>
    /\ UNCHANGED notMeta

NextMeta == GetBuildMetadataValue

(***************************************************************************)
(* VersionStage, Version and Version.__str__                               *)
(***************************************************************************)
DEV == 0
ALPHA == 10
BETA == 20
RC == 30
FINAL == 40
VersionStages == {DEV, ALPHA, BETA, RC, FINAL}

\* largest stage number, release number and dev number of the inputs
MaxStageNo == 11
\* most local segments of an input
MaxLocalLen == 2

\* text is a sequence of characters
Digits == <<"0", "1", "2", "3", "4", "5", "6", "7", "8", "9">>

\* str(n) for n >= 0
RECURSIVE IntStr(_)
IntStr(n) ==
    IF n < 10 THEN <<Digits[n + 1]>>
    ELSE IntStr(n \div 10) \o <<Digits[(n % 10) + 1]>>

\* VersionStage(...).name
StageName(stage) ==
    CASE stage = DEV -> <<"D", "E", "V">>
      [] stage = ALPHA -> <<"A", "L", "P", "H", "A">>
      [] stage = BETA -> <<"B", "E", "T", "A">>
      [] stage = RC -> <<"R", "C">>
      [] stage = FINAL -> <<"F", "I", "N", "A", "L">>

LowerChar(c) ==
    CASE c = "A" -> "a" [] c = "B" -> "b" [] c = "C" -> "c" [] c = "D" -> "d"
      [] c = "E" -> "e" [] c = "F" -> "f" [] c = "H" -> "h" [] c = "I" -> "i"
      [] c = "L" -> "l" [] c = "N" -> "n" [] c = "P" -> "p" [] c = "R" -> "r"
      [] c = "T" -> "t" [] c = "V" -> "v" [] OTHER -> c

\* str.lower()
Lower(s) == [i \in 1..Len(s) |-> LowerChar(s[i])]

\* sep.join(parts)
RECURSIVE Join(_, _)
Join(sep, parts) ==
    IF parts = <<>> THEN <<>>
    ELSE IF Len(parts) = 1 THEN parts[1]
    ELSE parts[1] \o sep \o Join(sep, Tail(parts))

\* whether text s contains sub
Contains(s, sub) ==
    \E i \in 0..(Len(s) - Len(sub)) : SubSeq(s, i + 1, i + Len(sub)) = sub

\* the local segments of the inputs
Segments == {<<"g", "1">>, <<"d", "e", "v">>}
Locals == SeqsUpTo(Segments, MaxLocalLen)

Version(major, minor, stage, stage_no, local) ==
    [major |-> major, minor |-> minor, stage |-> stage,
     stage_no |-> stage_no, local |-> local]

NoVersion == Version(0, 0, FINAL, 0, <<>>)

\* Version.__str__ as it would be without .lower()
VersionStrUpper(v) ==
    LET ver1 == IntStr(v.major) \o <<".">> \o IntStr(v.minor)
        ver2 == IF v.stage # FINAL
                   THEN ver1 \o <<"-">> \o StageName(v.stage)
                             \o <<".">> \o IntStr(v.stage_no)
                   ELSE ver1
    IN  IF v.local # <<>>
           THEN ver2 \o <<"+">> \o Join(<<".">>, v.local)
           ELSE ver2

\* Version.__str__
VersionStr(v) ==
    LET ver1 == IntStr(v.major) \o <<".">> \o IntStr(v.minor)
        ver2 == IF v.stage # FINAL
                   THEN ver1 \o <<"-">> \o Lower(StageName(v.stage))
                             \o <<".">> \o IntStr(v.stage_no)
                   ELSE ver1
    IN  IF v.local # <<>>
           THEN ver2 \o <<"+">> \o Join(<<".">>, v.local)
           ELSE ver2

InitStr ==
    /\ ver \in {Version(1, 2, st, no, loc) :
                    st \in VersionStages, no \in 0..MaxStageNo, loc \in Locals}
    /\ verstr = <<>>

\* str(Version(1, 2, stage, stage_no, local))
Str ==
    /\ verstr = <<>>
    /\ verstr' = VersionStr(ver)
    /\ UNCHANGED ver
    /\ UNCHANGED notStr

NextStr == Str

(***************************************************************************)
(* parse_version                                                           *)
(***************************************************************************)
\* an optional field of the foreign version (None when not there)
None == [some |-> FALSE, val |-> <<>>]
Some(x) == [some |-> TRUE, val |-> x]

\* Python's truth value of an optional tuple
TruthyTuple(x) == x.some /\ x.val # <<>>

PreLetters == {<<"a">>, <<"b">>, <<"c">>, <<"r", "c">>}
Releases == UNION {[1..k -> {0, MaxStageNo}] : k \in 1..3}

Parsed(v) == [kind |-> "return", version |-> v]
ParseError(kind) == [kind |-> kind, version |-> NoVersion]

\* the stage of a pre-release letter, -1 where parse_version raises
PreStage(letter) ==
    IF letter = <<"a">> THEN ALPHA
    ELSE IF letter = <<"b">> THEN BETA
    ELSE IF letter = <<"c">> THEN RC
    ELSE -1

\* parse_version as it would be if the dev segments were appended after the
\* foreign local segments
parse_version_local_first(v) ==
    LET havePre == TruthyTuple(v.pre)
        haveDev == TruthyTuple(v.dev)
        stage == IF havePre THEN PreStage(v.pre.val[1])
                 ELSE IF haveDev THEN DEV ELSE FINAL
        stage_no == IF havePre THEN v.pre.val[2]
                    ELSE IF haveDev THEN v.dev.val[2] ELSE 0
        local1 == IF TruthyTuple(v.local) THEN v.local.val ELSE <<>>
        local2 == IF havePre /\ haveDev
                     THEN local1 \o <<<<"d", "e", "v">>, IntStr(v.dev.val[2])>>
                     ELSE local1
    IN  IF stage = -1 THEN ParseError("MetadataError")
        ELSE IF Len(v.release) < 2 THEN ParseError("IndexError")
        ELSE Parsed(Version(v.release[1], v.release[2], stage, stage_no,
                            local2))

parse_version(v) ==
    LET havePre == TruthyTuple(v.pre)
        haveDev == TruthyTuple(v.dev)
        stage == IF havePre THEN PreStage(v.pre.val[1])
                 ELSE IF haveDev THEN DEV ELSE FINAL
        stage_no == IF havePre THEN v.pre.val[2]
                    ELSE IF haveDev THEN v.dev.val[2] ELSE 0
        local1 == IF havePre /\ haveDev
                     THEN <<<<"d", "e", "v">>, IntStr(v.dev.val[2])>>
                     ELSE <<>>
        local2 == IF TruthyTuple(v.local) THEN local1 \o v.local.val
                                          ELSE local1
    IN  IF stage = -1 THEN ParseError("MetadataError")
        ELSE IF Len(v.release) < 2 THEN ParseError("IndexError")
        ELSE Parsed(Version(v.release[1], v.release[2], stage, stage_no,
                            local2))

Foreigns ==
    [release : Releases,
     pre : {None} \cup {Some(<<l, n>>) : l \in PreLetters, n \in {0, MaxStageNo}},
     dev : {None} \cup {Some(<<"dev", n>>) : n \in {0, MaxStageNo}},
     local : {None} \cup {Some(l) : l \in Locals \ {<<>>}}]

NotParsed == ParseError("none")

InitParse ==
    /\ foreign \in Foreigns
    /\ parsed = NotParsed

ParseVersion ==
    /\ parsed = NotParsed
    /\ parsed' = parse_version(foreign)
    /\ UNCHANGED foreign
    /\ UNCHANGED notParse

NextParse == ParseVersion

(***************************************************************************)
(* hash_dirs                                                               *)
(***************************************************************************)
\* changes made to the tree between two digests
MaxChanges == 2

\* ord(c) of the characters of the paths
Ord(c) ==
    CASE c = "." -> 46 [] c = "/" -> 47 [] c = "a" -> 97 [] c = "b" -> 98
      [] c = "k" -> 107 [] c = "m" -> 109 [] c = "p" -> 112 [] c = "s" -> 115
      [] c = "t" -> 116 [] c = "x" -> 120 [] c = "y" -> 121

\* s < t for Python strings
RECURSIVE StrLess(_, _)
StrLess(s, t) ==
    IF t = <<>> THEN FALSE
    ELSE IF s = <<>> THEN TRUE
    ELSE IF Ord(Head(s)) # Ord(Head(t)) THEN Ord(Head(s)) < Ord(Head(t))
    ELSE StrLess(Tail(s), Tail(t))

\* xs, sorted, with x put in
RECURSIVE Insert(_, _)
Insert(x, xs) ==
    IF xs = <<>> THEN <<x>>
    ELSE IF StrLess(Head(xs), x) THEN <<Head(xs)>> \o Insert(x, Tail(xs))
    ELSE <<x>> \o xs

\* sorted(paths)
RECURSIVE Sorted(_)
Sorted(paths) ==
    IF paths = <<>> THEN <<>> ELSE Insert(Head(paths), Sorted(Tail(paths)))

\* name.endswith(ext)
EndsWith(name, ext) ==
    /\ Len(ext) <= Len(name)
    /\ SubSeq(name, Len(name) - Len(ext) + 1, Len(name)) = ext

\* the directories, and the places where a file may be
DirA == <<"a">>
DirB == <<"b">>
NameS == <<"s">>
NameM == <<"m", ".", "p", "y">>
NameK == <<"k", ".", "t", "x", "t">>
ExtPy == <<".", "p", "y">>
EntryPath(dirname, name) == dirname \o <<"/">> \o name
DirAS == EntryPath(DirA, NameS)
Subdirs(dirname) == IF dirname = DirA THEN {NameS} ELSE {}
Slots == {<<DirA, NameM>>, <<DirA, NameK>>, <<DirAS, NameM>>, <<DirB, NameM>>}
SlotOf(path) == CHOOSE sl \in Slots : EntryPath(sl[1], sl[2]) = path

FileContents == {<<>>, <<1>>, <<2>>}
Trees == [Slots -> {NoFile} \cup {File(c) : c \in FileContents}]

\* the orders in which os.scandir may yield a directory's entries: an order
\* of all the names, of which a directory yields the ones it holds
ScanOrders ==
    {o \in [1..3 -> {NameS, NameM, NameK}] :
        \A i, j \in 1..3 : i # j => o[i] # o[j]}

\* the (dir, ext) pairs, in either order
PairOrders == {<<<<DirA, ExtPy>>, <<DirB, ExtPy>>>>,
               <<<<DirB, ExtPy>>, <<DirA, ExtPy>>>>}

\* hash_dir(dirname, ext, paths): the paths it appends, for the entries
\* from the i-th of the scan order on
RECURSIVE hash_dir(_, _, _, _, _)
hash_dir(t, dirname, ext, scan, i) ==
    IF i > Len(scan) THEN <<>>
    ELSE LET name == scan[i]
             isFile == <<dirname, name>> \in Slots /\ t[<<dirname, name>>].exists
             isDir == name \in Subdirs(dirname)
             here == IF isFile /\ EndsWith(name, ext)
                        THEN <<EntryPath(dirname, name)>>
                     ELSE IF isFile THEN <<>>
                     ELSE IF isDir
                        THEN hash_dir(t, EntryPath(dirname, name), ext, scan, 1)
                     ELSE <<>>
         IN  here \o hash_dir(t, dirname, ext, scan, i + 1)

\* the paths collected over all the pairs
RECURSIVE CollectPaths(_, _, _)
CollectPaths(t, dirs, scan) ==
    IF dirs = <<>> THEN <<>>
    ELSE hash_dir(t, Head(dirs)[1], Head(dirs)[2], scan, 1)
            \o CollectPaths(t, Tail(dirs), scan)

\* h.update(f.read()) for each path in turn
RECURSIVE ReadAll(_, _)
ReadAll(t, paths) ==
    IF paths = <<>> THEN <<>>
    ELSE t[SlotOf(Head(paths))].content \o ReadAll(t, Tail(paths))

\* SHA-1, taken as injective: the digest stands for the bytes hashed
Sha1(stream) == [done |-> TRUE, sha1 |-> stream]
NoDigest == [done |-> FALSE, sha1 |-> <<>>]

\* hash_dirs as it would be without sorted()
hash_dirs_unsorted(t, dirs, scan) ==
    Sha1(ReadAll(t, CollectPaths(t, dirs, scan)))

hash_dirs(t, dirs, scan) ==
    Sha1(ReadAll(t, Sorted(CollectPaths(t, dirs, scan))))

InitHash ==
    /\ tree \in Trees
    /\ tree2 = [t |-> tree, n |-> 0]
    /\ digest = NoDigest
    /\ digest2 = NoDigest

\* hash_dirs over the tree as it was
HashBefore ==
    /\ digest = NoDigest
    /\ \E dirs \in PairOrders, scan \in ScanOrders :
          digest' = hash_dirs(tree, dirs, scan)
    /\ UNCHANGED <<tree, tree2, digest2>>
    /\ UNCHANGED notHash

\* a file is written, added or removed
ChangeFile ==
    /\ tree2.n < MaxChanges
    /\ \E sl \in Slots, f \in {NoFile} \cup {File(c) : c \in FileContents} :
          /\ f # tree2.t[sl]
          /\ tree2' = [t |-> [tree2.t EXCEPT ![sl] = f], n |-> tree2.n + 1]
    /\ digest2' = NoDigest
    /\ UNCHANGED <<tree, digest>>
    /\ UNCHANGED notHash

\* hash_dirs over the tree as it is now
HashAfter ==
    /\ digest2 = NoDigest
    /\ \E dirs \in PairOrders, scan \in ScanOrders :
          digest2' = hash_dirs(tree2.t, dirs, scan)
    /\ UNCHANGED <<tree, tree2, digest>>
    /\ UNCHANGED notHash

NextHash ==
    \/ HashBefore
    \/ ChangeFile
    \/ HashAfter

(***************************************************************************)
(* get_version, get_version_dict, get_version_json                         *)
(***************************************************************************)
\* calls made in one run
MaxCalls == 3

Callers == {"t1", "t2"}

\* where the version comes from, fixed for the life of the process: in
\* development mode the provider's version, parsed to the foreign form (or
\* no provider module); otherwise the VERSION tuple of the build metadata
\* (or none)
NoForeign == [release |-> <<0, 0>>, pre |-> None, dev |-> None, local |-> None]
Sources ==
    {[devmode |-> FALSE, ok |-> FALSE, tuple |-> <<0, 0, FINAL, 0, <<>>>>,
      foreign |-> NoForeign],
     [devmode |-> FALSE, ok |-> TRUE, tuple |-> <<1, 0, FINAL, 0, <<>>>>,
      foreign |-> NoForeign],
     [devmode |-> FALSE, ok |-> TRUE,
      tuple |-> <<1, 2, ALPHA, 7, <<<<"g", "1">>>>>>, foreign |-> NoForeign],
     [devmode |-> TRUE, ok |-> TRUE, tuple |-> <<0, 0, FINAL, 0, <<>>>>,
      foreign |-> [release |-> <<1, 0>>, pre |-> Some(<<<<"b">>, 2>>),
                   dev |-> Some(<<"dev", 11>>),
                   local |-> Some(<<<<"g", "1">>>>)]],
     [devmode |-> TRUE, ok |-> FALSE, tuple |-> <<0, 0, FINAL, 0, <<>>>>,
      foreign |-> NoForeign]}

\* VersionStage(x): the member with that value
VersionStage(x) == CHOOSE st \in VersionStages : st = x

get_version(src) ==
    IF ~src.ok THEN ParseError("MetadataError")
    ELSE IF src.devmode THEN parse_version(src.foreign)
    ELSE Parsed(Version(src.tuple[1], src.tuple[2],
                        VersionStage(src.tuple[3]), src.tuple[4],
                        src.tuple[5]))

\* the mapping get_version_dict builds
VersionDict(v) ==
    [major |-> v.major, minor |-> v.minor,
     stage |-> Lower(StageName(v.stage)), stage_no |-> v.stage_no,
     local |-> IF v.local # <<>> THEN v.local ELSE <<>>]

\* json.dumps of a string without characters to escape
JsonStr(s) == <<"\"">> \o s \o <<"\"">>
JsonKey(k) == JsonStr(k) \o <<":", " ">>
JsonList(items) ==
    <<"[">> \o Join(<<",", " ">>, [i \in 1..Len(items) |-> JsonStr(items[i])])
        \o <<"]">>

\* json.dumps(dict(d)) of a version dict
JsonDumps(d) ==
    <<"{">> \o JsonKey(<<"m", "a", "j", "o", "r">>) \o IntStr(d.major)
        \o <<",", " ">> \o JsonKey(<<"m", "i", "n", "o", "r">>)
        \o IntStr(d.minor)
        \o <<",", " ">> \o JsonKey(<<"s", "t", "a", "g", "e">>)
        \o JsonStr(d.stage)
        \o <<",", " ">> \o JsonKey(<<"s", "t", "a", "g", "e", "_", "n", "o">>)
        \o IntStr(d.stage_no)
        \o <<",", " ">> \o JsonKey(<<"l", "o", "c", "a", "l">>)
        \o JsonList(d.local) \o <<"}">>

\* an empty memo slot (None), and a filled one
NoDict == [some |-> FALSE, val |-> VersionDict(NoVersion)]
SomeDict(d) == [some |-> TRUE, val |-> d]
NoText == [some |-> FALSE, val |-> <<>>]
SomeText(x) == [some |-> TRUE, val |-> x]

\* what a call gave its caller
NoReturn == [kind |-> "none", version |-> NoVersion, dict |-> NoDict,
             text |-> NoText]
ReturnVersion(v) == [NoReturn EXCEPT !.kind = "version", !.version = v]
ReturnDict(d) == [NoReturn EXCEPT !.kind = "dict", !.dict = d]
ReturnText(x) == [NoReturn EXCEPT !.kind = "json", !.text = x]
Raised == [NoReturn EXCEPT !.kind = "MetadataError"]

InitMemo ==
    /\ versionDict = NoDict
    /\ versionJson = NoText
    /\ source \in Sources
    /\ cpc = [t \in Callers |-> "idle"]
    /\ ctop = [t \in Callers |-> "-"]
    /\ cver = [t \in Callers |-> NoVersion]
    /\ cdict = [t \in Callers |-> NoDict]
    /\ cret = [t \in Callers |-> NoReturn]
    /\ ncalls = 0
    /\ nVersion = 0
    /\ nViaDict = 0
    /\ nDict = 0
    /\ nJson = 0

slotVars == <<versionDict, versionJson, source>>
countVars == <<nVersion, nViaDict, nDict, nJson>>

\* a caller enters get_version(), get_version_dict() or get_version_json()
Call(t, fns) ==
    /\ cpc[t] = "idle"
    /\ ncalls < MaxCalls
    /\ ncalls' = ncalls + 1
    /\ \E fn \in fns :
          /\ ctop' = [ctop EXCEPT ![t] = fn]
          /\ cpc' = [cpc EXCEPT ![t] =
                CASE fn = "version" -> "v_compute"
                  [] fn = "dict" -> "d_check"
                  [] fn = "json" -> "j_check"]
    /\ UNCHANGED <<slotVars, countVars, cver, cdict, cret>>
    /\ UNCHANGED notMemo

\* get_version(): computed anew at each call
VersionCompute(t) ==
    /\ cpc[t] = "v_compute"
    /\ nVersion' = nVersion + 1
    /\ LET r == get_version(source)
       IN  cret' = [cret EXCEPT ![t] =
                IF r.kind = "return" THEN ReturnVersion(r.version)
                                     ELSE Raised]
    /\ cpc' = [cpc EXCEPT ![t] = "done"]
    /\ UNCHANGED <<slotVars, nViaDict, nDict, nJson, ctop, cver, cdict,
                   ncalls>>
    /\ UNCHANGED notMemo

\* DictCheck as it would be if get_version_dict never looked at its slot
DictCheckAlways(t) ==
    /\ cpc[t] = "d_check"
    /\ cpc' = [cpc EXCEPT ![t] = "d_version"]
    /\ UNCHANGED <<slotVars, countVars, ctop, cver, cdict, cret, ncalls>>
    /\ UNCHANGED notMemo

\* get_version_dict: if _version_dict is None
DictCheck(t) ==
    /\ cpc[t] = "d_check"
    /\ cpc' = [cpc EXCEPT ![t] =
                    IF ~versionDict.some THEN "d_version" ELSE "d_return"]
    /\ UNCHANGED <<slotVars, countVars, ctop, cver, cdict, cret, ncalls>>
    /\ UNCHANGED notMemo

\* ver = get_version()
DictVersion(t) ==
    /\ cpc[t] = "d_version"
    /\ nVersion' = nVersion + 1
    /\ nViaDict' = nViaDict + 1
    /\ LET r == get_version(source)
       IN  IF r.kind = "return"
              THEN /\ cver' = [cver EXCEPT ![t] = r.version]
                   /\ cpc' = [cpc EXCEPT ![t] = "d_store"]
                   /\ cret' = cret
              ELSE /\ cver' = cver
                   /\ cpc' = [cpc EXCEPT ![t] = "done"]
                   /\ cret' = [cret EXCEPT ![t] = Raised]
    /\ UNCHANGED <<slotVars, nDict, nJson, ctop, cdict, ncalls>>
    /\ UNCHANGED notMemo

\* _version_dict = immu.Map({...})
DictStore(t) ==
    /\ cpc[t] = "d_store"
    /\ versionDict' = SomeDict(VersionDict(cver[t]))
    /\ nDict' = nDict + 1
    /\ cpc' = [cpc EXCEPT ![t] = "d_return"]
    /\ UNCHANGED <<versionJson, source, nVersion, nViaDict, nJson, ctop,
                   cver, cdict, cret, ncalls>>
    /\ UNCHANGED notMemo

\* return _version_dict: to the caller, or to get_version_json
DictReturn(t) ==
    /\ cpc[t] = "d_return"
    /\ IF ctop[t] = "json"
          THEN /\ cdict' = [cdict EXCEPT ![t] = versionDict]
               /\ cpc' = [cpc EXCEPT ![t] = "j_store"]
               /\ cret' = cret
          ELSE /\ cdict' = cdict
               /\ cpc' = [cpc EXCEPT ![t] = "done"]
               /\ cret' = [cret EXCEPT ![t] = ReturnDict(versionDict)]
    /\ UNCHANGED <<slotVars, countVars, ctop, cver, ncalls>>
    /\ UNCHANGED notMemo

\* JsonCheck as it would be with the test the other way round
JsonCheckInverted(t) ==
    /\ cpc[t] = "j_check"
    /\ cpc' = [cpc EXCEPT ![t] =
                    IF versionJson.some THEN "d_check" ELSE "j_return"]
    /\ UNCHANGED <<slotVars, countVars, ctop, cver, cdict, cret, ncalls>>
    /\ UNCHANGED notMemo

\* get_version_json: if _version_json is None: ... get_version_dict()
JsonCheck(t) ==
    /\ cpc[t] = "j_check"
    /\ cpc' = [cpc EXCEPT ![t] =
                    IF ~versionJson.some THEN "d_check" ELSE "j_return"]
    /\ UNCHANGED <<slotVars, countVars, ctop, cver, cdict, cret, ncalls>>
    /\ UNCHANGED notMemo

\* _version_json = json.dumps(dict(...))
JsonStore(t) ==
    /\ cpc[t] = "j_store"
    /\ versionJson' = SomeText(JsonDumps(cdict[t].val))
    /\ nJson' = nJson + 1
    /\ cpc' = [cpc EXCEPT ![t] = "j_return"]
    /\ UNCHANGED <<versionDict, source, nVersion, nViaDict, nDict, ctop,
                   cver, cdict, cret, ncalls>>
    /\ UNCHANGED notMemo

\* return _version_json
JsonReturn(t) ==
    /\ cpc[t] = "j_return"
    /\ cret' = [cret EXCEPT ![t] = ReturnText(versionJson)]
    /\ cpc' = [cpc EXCEPT ![t] = "done"]
    /\ UNCHANGED <<slotVars, countVars, ctop, cver, cdict, ncalls>>
    /\ UNCHANGED notMemo

\* the caller has its answer (or the exception) and goes on
CallReturn(t) ==
    /\ cpc[t] = "done"
    /\ cpc' = [cpc EXCEPT ![t] = "idle"]
    /\ ctop' = [ctop EXCEPT ![t] = "-"]
    /\ cver' = [cver EXCEPT ![t] = NoVersion]
    /\ cdict' = [cdict EXCEPT ![t] = NoDict]
    /\ cret' = [cret EXCEPT ![t] = NoReturn]
    /\ UNCHANGED <<slotVars, countVars, ncalls>>
    /\ UNCHANGED notMemo

MemoStep(t) ==
    \/ DictCheck(t)
    \/ DictVersion(t)
    \/ DictStore(t)
    \/ DictReturn(t)
    \/ JsonCheck(t)
    \/ JsonStore(t)
    \/ JsonReturn(t)
    \/ CallReturn(t)

\* one thread calling the three functions in any sequence
NextMemoSeq ==
    \/ Call("t1", {"version", "dict", "json"})
    \/ VersionCompute("t1")
    \/ MemoStep("t1")

\* threads calling get_version_dict and get_version_json, interleaved
NextMemo ==
    \E t \in Callers :
        \/ Call(t, {"dict", "json"})
        \/ MemoStep(t)

(***************************************************************************)
(* Specifications: each part of the module runs with the others at rest    *)
(***************************************************************************)
AtRestCache ==
    /\ dest = [p \in Paths |-> NoFile]
    /\ destArgs = [p \in Paths |-> NoArgs]
    /\ orphans = 0
    /\ wpc = [w \in Writers |-> "idle"]
    /\ wargs = [w \in Writers |-> NoArgs]
    /\ wf = [w \in Writers |-> "unbound"]
    /\ wbuf = [w \in Writers |-> <<>>]
    /\ wcause = [w \in Writers |-> NoError]
    /\ wraised = [w \in Writers |-> NoError]
    /\ rpc = "off"
    /\ rargs = NoArgs
    /\ rfd = NoFile
    /\ rseen = NoArgs
    /\ rhash = <<>>
    /\ rresult = NoneObj

AtRestMeta ==
    /\ environ = <<>>
    /\ buildmeta = NoModule
    /\ mprop = ""
    /\ mresult = NoResult

AtRestVersion ==
    /\ ver = NoVersion
    /\ verstr = <<>>
    /\ foreign = NoForeign
    /\ parsed = NotParsed

AtRestStr == ver = NoVersion /\ verstr = <<>>
AtRestParse == foreign = NoForeign /\ parsed = NotParsed

AtRestHash ==
    /\ tree = [sl \in Slots |-> NoFile]
    /\ tree2 = [t |-> tree, n |-> 0]
    /\ digest = NoDigest
    /\ digest2 = NoDigest

AtRestMemo ==
    /\ versionDict = NoDict
    /\ versionJson = NoText
    /\ source = CHOOSE src \in Sources : ~src.ok /\ ~src.devmode
    /\ cpc = [t \in Callers |-> "off"]
    /\ ctop = [t \in Callers |-> "-"]
    /\ cver = [t \in Callers |-> NoVersion]
    /\ cdict = [t \in Callers |-> NoDict]
    /\ cret = [t \in Callers |-> NoReturn]
    /\ ncalls = 0
    /\ nVersion = 0
    /\ nViaDict = 0
    /\ nDict = 0
    /\ nJson = 0

\* the data cache, one caller at a time
InitOfCache ==
    /\ InitCache
    /\ AtRestMeta
    /\ AtRestVersion
    /\ AtRestHash
    /\ AtRestMemo

SpecCache == InitOfCache /\ [][NextCache]_vars

\* the data cache, concurrent writers and a reader
InitOfCacheConc ==
    /\ InitCache
    /\ AtRestMeta
    /\ AtRestVersion
    /\ AtRestHash
    /\ AtRestMemo

SpecCacheConc == InitOfCacheConc /\ [][NextCacheConc]_vars

\* get_build_metadata_value over every environment and record
InitOfMeta ==
    /\ InitMeta
    /\ AtRestCache
    /\ AtRestVersion
    /\ AtRestHash
    /\ AtRestMemo

SpecMeta == InitOfMeta /\ [][NextMeta]_vars

\* str() of every Version(1, 2, ...)
InitOfStr ==
    /\ InitStr
    /\ AtRestParse
    /\ AtRestCache
    /\ AtRestMeta
    /\ AtRestHash
    /\ AtRestMemo

SpecStr == InitOfStr /\ [][NextStr]_vars

\* parse_version of every foreign version
InitOfParse ==
    /\ InitParse
    /\ AtRestStr
    /\ AtRestCache
    /\ AtRestMeta
    /\ AtRestHash
    /\ AtRestMemo

SpecParse == InitOfParse /\ [][NextParse]_vars

\* hash_dirs before and after changes to the tree
InitOfHash ==
    /\ InitHash
    /\ AtRestCache
    /\ AtRestMeta
    /\ AtRestVersion
    /\ AtRestMemo

SpecHash == InitOfHash /\ [][NextHash]_vars

\* the version functions called from one thread
InitOfMemoSeq ==
    /\ InitMemo
    /\ AtRestCache
    /\ AtRestMeta
    /\ AtRestVersion
    /\ AtRestHash

SpecMemoSeq == InitOfMemoSeq /\ [][NextMemoSeq]_vars

\* the version functions called from several threads
InitOfMemo ==
    /\ InitMemo
    /\ AtRestCache
    /\ AtRestMeta
    /\ AtRestVersion
    /\ AtRestHash

SpecMemo == InitOfMemo /\ [][NextMemo]_vars

(***************************************************************************)
(* Properties                                                              *)
(***************************************************************************)
\* the whole content write_data_cache(obj, key, ...) puts in a file
Entry(a) == a.key \o Payload(a.obj, a.pickled)

\* C1: a read that follows a completed write to the same path, with the
\* same key and the same pickled flag, returns a value equal to the object
\* written.  rseen is the call whose rename put the file the reader opened.
C1_RoundTrip ==
    (/\ rpc = "done"
     /\ rfd.exists
     /\ rseen.path = rargs.path
     /\ rseen.key = rargs.key
     /\ rseen.pickled = rargs.pickled)
        => rresult = rseen.obj

\* a pickled bytes object written under a key of one byte has been read back
C1_Witness ==
    /\ rpc = "done"
    /\ rfd.exists
    /\ rseen.key = rargs.key
    /\ Len(rargs.key) = 1
    /\ rargs.pickled
    /\ rseen.pickled
    /\ rseen.obj = BytesObj(<<2>>)
    /\ rresult = BytesObj(<<2>>)

\* C2, as claimed: a read with a key that differs from the key the entry
\* was written with returns None ("absent"), whatever the keys' lengths.
C2_DifferentKeyAbsent ==
    (/\ rpc = "done"
     /\ rfd.exists
     /\ rseen.key # rargs.key)
        => rresult = NoneObj

\* C3: whatever the interleaving of writers, failing or interrupted writers
\* and the reader, the file at full_path is absent or is exactly key ||
\* payload of the call whose rename put it there, and so is the file a
\* reader has open; a reader that found its key read the whole payload.
C3_NoPartialFile ==
    /\ \A p \in Paths :
          dest[p].exists =>
              /\ Writable(destArgs[p].obj, destArgs[p].pickled)
              /\ dest[p].content = Entry(destArgs[p])
    /\ rfd.exists => rfd.content = Entry(rseen)
    /\ (rpc = "done" /\ rfd.exists /\ rhash = rargs.key /\ rhash = rseen.key
        /\ ~rargs.pickled)
          => rresult = BytesObj(Payload(rseen.obj, rseen.pickled))

\* a writer has failed and left a partly written temp file, while a reader
\* is reading a file that another writer has meanwhile replaced
C3_Witness ==
    /\ \E w \in Writers :
          /\ wpc[w] = "failed"
          /\ wf[w] = "temp"
          /\ wbuf[w] # <<>>
          /\ wbuf[w] \in StrictPrefixes(Entry(wargs[w]))
    /\ rpc = "readrest"
    /\ dest["p"].exists
    /\ rfd # dest["p"]

\* C4, as claimed: a write that failed has put no file at the destination,
\* has left no temp file, and the exception that reaches the caller is the
\* one that was raised first.
C4_FailedWriteClean ==
    \A w \in Writers :
        wpc[w] = "failed" =>
            /\ wf[w] # "renamed"
            /\ wf[w] # "temp"
            /\ wraised[w] = wcause[w]

\* the override of the property asked for
Override == EnvironGet(environ, EnvName(mprop))
\* whether the embedded record defines the property asked for
Embedded == buildmeta.present /\ mprop \in DOMAIN buildmeta.attrs

\* C5, amended: an override that is set and not empty is what is returned,
\* even if the embedded record defines the property; with the override unset
\* or empty the embedded record's value is returned; MetadataError is raised
\* exactly when the override is unset or empty and the record has no value.
C5_OverrideWins ==
    mresult.kind # "none" =>
        /\ (Override.set /\ Override.val # "") => mresult = Return(Override.val)
        /\ (~(Override.set /\ Override.val # "") /\ Embedded)
              => mresult = Return(buildmeta.attrs[mprop])
        /\ mresult.kind = "MetadataError"
              <=> (~(Override.set /\ Override.val # "") /\ ~Embedded)

\* an override was returned although the embedded record has another value
C5_Witness ==
    /\ mresult.kind = "return"
    /\ Override.set
    /\ Override.val = "x"
    /\ Embedded
    /\ buildmeta.attrs[mprop] = "y"
    /\ mresult.val = "x"

\* C5, as claimed: an override that is set, whatever its value, is what is
\* returned.
C5_AnyOverrideWins ==
    (mresult.kind # "none" /\ Override.set) => mresult = Return(Override.val)

\* the string contains the lowercase stage name and the stage number
NamesStage ==
    /\ Contains(verstr, Lower(StageName(ver.stage)))
    /\ Contains(verstr, IntStr(ver.stage_no))

\* C6, amended: for every stage other than FINAL (whatever stage_no and
\* local), str(Version(1, 2, ...)) contains the lowercase stage name and
\* stage_no; for (FINAL, 0, ()) it is exactly "1.2".
C6_StrNamesStage ==
    verstr # <<>> =>
        /\ ver.stage # FINAL => NamesStage
        /\ (ver.stage = FINAL /\ ver.stage_no = 0 /\ ver.local = <<>>)
              => verstr = <<"1", ".", "2">>

\* a release candidate with a stage number of two digits and local segments
\* has been rendered
C6_Witness ==
    /\ verstr # <<>>
    /\ ver.stage = RC
    /\ ver.stage_no = 11
    /\ Len(ver.local) = 2

\* C6, as claimed: for everything other than (FINAL, _, ()), FINAL with
\* local segments included, the string contains the lowercase stage name
\* and stage_no.
C6_StrNamesStageAlways ==
    (verstr # <<>> /\ ~(ver.stage = FINAL /\ ver.local = <<>>)) => NamesStage

\* the contents of the matched files, in the order of their sorted paths
\* (a file that is not there adds nothing)
Stream(t) ==
    t[<<DirA, NameM>>].content \o t[<<DirAS, NameM>>].content
        \o t[<<DirB, NameM>>].content

\* the matched files of a tree: where they are and what they hold
Matched(t) == [sl \in {x \in Slots : EndsWith(x[2], ExtPy)} |-> t[sl]]

\* C7, amended: whatever the order of scandir and of the pairs, the digest
\* is that of the matched files' contents concatenated in sorted path order;
\* two digests differ exactly when these concatenations differ.
C7_DigestOfStream ==
    /\ digest.done => digest = Sha1(Stream(tree))
    /\ digest2.done => digest2 = Sha1(Stream(tree2.t))
    /\ (digest.done /\ digest2.done)
          => (digest = digest2 <=> Stream(tree) = Stream(tree2.t))

\* a tree whose scan order and sorted order may differ was hashed, a matched
\* file was changed, and the digests differ
C7_Witness ==
    /\ digest.done
    /\ digest2.done
    /\ tree[<<DirA, NameM>>] = File(<<1>>)
    /\ tree[<<DirAS, NameM>>] = File(<<2>>)
    /\ tree2.t[<<DirB, NameM>>] # tree[<<DirB, NameM>>]
    /\ digest # digest2

\* C7, as claimed: the digest changes whenever a matched file's content
\* changes or a matched file is added or removed.
C7_AnyChangeShows ==
    (digest.done /\ digest2.done /\ Matched(tree) # Matched(tree2.t))
        => digest # digest2

\* the stage parse_version is to derive from a pre-release letter
LetterStage(letter) ==
    CASE letter = <<"a">> -> ALPHA
      [] letter = <<"b">> -> BETA
      [] letter = <<"c">> -> RC

SourceOk == get_version(source).kind = "return"
SourceDict == SomeDict(VersionDict(get_version(source).version))

\* C9, amended: over any sequence of calls from one thread, the dict form
\* and the JSON form are each computed at most once, get_version_dict calls
\* get_version at most once when that call succeeds, and every call returns
\* the same dict and the same JSON text.  (get_version itself keeps nothing:
\* see C9_AllComputedOnce.)
C9_DictAndJsonOnce ==
    /\ nDict <= 1
    /\ nJson <= 1
    /\ SourceOk => nViaDict <= 1
    /\ \A t \in Callers :
          /\ cret[t].kind = "dict" => cret[t].dict = SourceDict
          /\ cret[t].kind = "json" =>
                cret[t].text = SomeText(JsonDumps(SourceDict.val))

\* the third call in a row returns the JSON text from the slot
C9_Witness ==
    /\ ncalls = 3
    /\ nDict = 1
    /\ nJson = 1
    /\ cret["t1"].kind = "json"
    /\ ~cdict["t1"].some

\* C9, as claimed: the Version, too, is computed at most once.
C9_AllComputedOnce ==
    SourceOk => (nVersion <= 1 /\ nDict <= 1 /\ nJson <= 1)

\* every call returns the value of the one version; the JSON slot, once
\* filled, is the serialization of the dict slot
C10_Values ==
    /\ versionDict.some => versionDict = SourceDict
    /\ versionJson.some =>
          /\ versionDict.some
          /\ versionJson.val = JsonDumps(versionDict.val)
    /\ \A t, u \in Callers :
          /\ cret[t].kind = "dict" =>
                /\ cret[t].dict.some
                /\ cret[t].dict = versionDict
          /\ cret[t].kind = "json" =>
                /\ cret[t].text.some
                /\ cret[t].text = versionJson
          /\ cret[t].kind = cret[u].kind => cret[t] = cret[u]

\* a slot that is filled stays filled, with the same value
C10_SlotsKeep ==
    /\ versionDict.some => versionDict' = versionDict
    /\ versionJson.some => versionJson' = versionJson

\* C10: under any interleaving of get_version_dict and get_version_json
\* callers, with the source unchanging, callers may each compute and
\* overwrite a slot, yet every call returns the same value, a filled slot
\* never empties or changes, and the JSON slot is the serialization of the
\* dict slot.
C10_BenignRace == []C10_Values /\ [][C10_SlotsKeep]_vars

\* two callers have each computed and stored both forms, and both have
\* their JSON text
C10_Witness ==
    /\ nDict = 2
    /\ nJson = 2
    /\ \A t \in Callers : cret[t].kind = "json"

====
